---- MODULE Spec2Model ----
(***************************************************************************)
(* The McCabe-Thiele plate counter of                                      *)
(* src/apps/图解法求理论板数/图解法求理论板数.py (DistillationApp).        *)
(*                                                                         *)
(* Numbers.  The program computes in binary floating point.  Here a real   *)
(* number r is the integer r * Den (fixed point, Den units per 1.0); a     *)
(* product or quotient is rounded toward minus infinity to that grid.      *)
(* With Den = 1000 every default parameter of load_config (0.53, 0.44,     *)
(* 1.1, -0.05, 0.95, 0.45, 0.05) is a grid point.  float('nan') and        *)
(* float('inf') are not among the entry texts modelled.                    *)
(*                                                                         *)
(* Interpolation.  scipy's interp1d(curve_y, curve_x, kind='cubic',        *)
(* fill_value="extrapolate") is library code.  It is modelled by what the  *)
(* stepping loop relies on: a fixed function of the sorted samples that    *)
(* passes through every sample; between samples and outside them the       *)
(* model takes the straight line through the two nearest samples.          *)
(***************************************************************************)
EXTENDS Integers, Sequences, FiniteSets, TLC

\* Fixed-point resolution: grid units per 1.0.
Den == 1000

\* max_steps = 100, the iteration cap of the stepping loop.
max_steps == 100

VARIABLES
    entries,          \* the seven Entry widgets' texts
    combo_file,       \* the file chosen in combo_file
    pc,               \* position of the plot_graph callback
    k_R, b_R, k_S, b_S, x_D, x_F, x_W,   \* the parsed floats
    x_intersect,
    f_curve_y_to_x,   \* the interpolant: its knots <<y, x>>, ascending in y
    current_x, current_y, next_x,
    count,
    steps_x, steps_y,
    iter,             \* how many times the loop body has been entered
    exit,             \* how the while loop ended: "crossed" (break) or "cap"
    title,            \* the plate count shown in the axes title, -1 before any plot
    msg,              \* what the last plot_graph call reported besides the plot
    prior             \* history: one earlier completed run, its inputs and outputs

\* The tray-loading diagram, src/apps/塔板负荷性能图/塔板负荷性能图.py.
VARIABLES
    inputs,             \* the parameter form, with the plate type, as last plotted
    all_intersections,  \* the points plot_diagram collected, by ascending Vs
    valid_points,       \* those inside the operating region
    Vs_min_val, Vs_max_val,
    E_op,               \* the flexibility, in units of 1 / Den
    canvas              \* what the axes show: "empty", "invalid" or "diagram"

stage_vars == <<entries, combo_file, pc, k_R, b_R, k_S, b_S, x_D, x_F, x_W,
                x_intersect, f_curve_y_to_x, current_x, current_y, next_x, count,
                steps_x, steps_y, iter, exit, title, msg, prior>>

tray_vars == <<inputs, all_intersections, valid_points, Vs_min_val, Vs_max_val,
               E_op, canvas>>

\* The launcher, src/main.py.
VARIABLES
    frozen,        \* sys.frozen: the launcher runs as a packaged executable
    exe_content,   \* the bytes of sys.executable, as a sequence of chunks
    launcher,      \* "off" or "running"
    mode_data,     \* LauncherApp.mode_data
    is_student,    \* LauncherApp.is_student
    imported,      \* features.date_range was imported (lines 28-31)
    running_processes,  \* LauncherApp.running_processes, by application
    last_launch    \* history: what the last launch_app call did

launcher_vars == <<frozen, exe_content, launcher, mode_data, is_student,
                   imported, running_processes, last_launch>>

\* The network clock, src/features/date_range.py.
VARIABLES
    call,          \* position of an is_within_date_range call
    args,          \* its start_date_str and end_date_str
    now,           \* the time the servers report during the call
    worker,        \* each fetch_time_worker: "running", or what it returned
    first_time,    \* history: the first worker that returned a time
    snapshot,      \* as_completed: futures already done when it was called
    queue,         \* as_completed: futures done since, in order of completion
    dt,            \* what get_network_time returns
    range_result   \* what is_within_date_range returns

time_vars == <<call, args, now, worker, first_time, snapshot, queue, dt, range_result>>

\* The parameter form of the tray-loading application and its files.
VARIABLES
    param_inputs,    \* TowerOperatingApp.inputs: the text of each entry
    plate_type_var,  \* TowerOperatingApp.plate_type_var
    current_params,  \* TowerOperatingApp.current_params
    params_json,     \* the file params.json
    example_json,    \* the file example.json
    plotted,         \* what the last plot_diagram call read
    handler          \* history: the handler that ran last

params_vars == <<param_inputs, plate_type_var, current_params, params_json,
                 example_json, plotted, handler>>

\* The valve/sieve counter, src/apps/阀孔实际阀孔数, one of the applications
\* built on the StandardApp template.
VARIABLES
    shared,             \* the inner dictionaries of HARDCODED_DEFAULTS, which
                        \* self.config[mode] refers to as well
    config_current_mode,  \* self.config["current_mode"]
    mode_var,           \* mode_var, and current_mode_str after each handler
    layout_mode_var,    \* ValveTrayApp.layout_mode_var
    valve_inputs,       \* ValveTrayApp.inputs: the text of each entry
    pitch_prime_state,  \* the state of the pitch_prime entry
    config_json,        \* the file config.json
    default_config_json,  \* the file default_config.json
    trip,               \* history: a visit to the other mode; while away,
                        \* what the mode visited had stored before
    valve_handler       \* history: "reset" or "mode" when that ran last

valve_vars == <<shared, config_current_mode, mode_var, layout_mode_var,
                valve_inputs, pitch_prime_state, config_json,
                default_config_json, trip, valve_handler>>

vars == <<stage_vars, tray_vars, launcher_vars, time_vars, params_vars, valve_vars>>

\* What the plate counter leaves alone: the other programs of the toolbox.
others == <<tray_vars, launcher_vars, time_vars, params_vars, valve_vars>>

locals == <<k_R, b_R, k_S, b_S, x_D, x_F, x_W, x_intersect, f_curve_y_to_x,
            current_x, current_y, next_x, count, steps_x, steps_y, iter, exit>>

-----------------------------------------------------------------------------
(* Entry texts and float().                                                *)

\* An Entry's text: the decimal text of a number, or text float() rejects.
Num(v) == [num |-> TRUE, val |-> v]
Junk == [num |-> FALSE, val |-> 0]

Fields == {"rect_slope", "rect_intercept", "strip_slope", "strip_intercept",
           "xD", "xF", "xW"}

Case(kr, br, ks, bs, xd, xf, xw) ==
    [rect_slope |-> kr, rect_intercept |-> br, strip_slope |-> ks,
     strip_intercept |-> bs, xD |-> xd, xF |-> xf, xW |-> xw]

\* default_config of load_config, as create_inputs inserts it.
default_config ==
    Case(Num(530), Num(440), Num(1100), Num(-50), Num(950), Num(450), Num(50))

\* The texts a user types, one whole form at a time.
InputCases ==
    { default_config,
      \* rectifying line far above the curve (intercept 0.9)
      Case(Num(530), Num(900), Num(1100), Num(-50), Num(950), Num(450), Num(50)),
      \* lines close under the curve y = x + 0.002, crossing at x = 0.5
      Case(Num(1000), Num(1), Num(1002), Num(0), Num(510), Num(300), Num(50)),
      \* equal slopes
      Case(Num(1000), Num(1), Num(1000), Num(0), Num(510), Num(500), Num(50)),
      \* equal slopes with the rectifying line the lower one, and the same
      \* again with the rectifying line 0.001 lower still
      Case(Num(1000), Num(-5), Num(1000), Num(0), Num(510), Num(500), Num(450)),
      Case(Num(1000), Num(-6), Num(1000), Num(0), Num(510), Num(500), Num(450)),
      \* a feed composition above 1
      Case(Num(530), Num(440), Num(1100), Num(-50), Num(950), Num(1500), Num(50)),
      \* x_D = x_W, inside the diagram and at its corner
      Case(Num(530), Num(440), Num(1100), Num(-50), Num(500), Num(500), Num(500)),
      Case(Num(530), Num(440), Num(1100), Num(-50), Num(0), Num(0), Num(0)),
      \* a field that is not a number
      Case(Num(530), Junk, Num(1100), Num(-50), Num(950), Num(450), Num(50)) }

\* float(entry.get()) succeeds on every field (lines 303-310).
AllNumeric(e) == \A f \in Fields : e[f].num

-----------------------------------------------------------------------------
(* The data directory.                                                     *)

\* The .xlsx files get_available_excel_files() found at start-up.
excel_files ==
    {"sqrt.xlsx", "near.xlsx", "steep.xlsx", "dip.xlsx", "blanks.xlsx",
     "sparse.xlsx", "gone.xlsx"}

\* Files still on disk when plot_graph reads them.
OnDisk == excel_files \ {"gone.xlsx"}

\* The rows <<x, y>> of each sheet, in sheet order.
DataRows(f) ==
    CASE f = "sqrt.xlsx" ->
           \* y = sqrt(x) at x = 0, 0.1, ..., 1.0, rows not in order
           << <<500, 707>>, <<0, 0>>, <<100, 316>>, <<200, 447>>, <<300, 548>>,
              <<400, 632>>, <<1000, 1000>>, <<600, 775>>, <<700, 837>>,
              <<800, 894>>, <<900, 949>> >>
      [] f = "near.xlsx" ->
           \* y = x + 0.002
           << <<0, 2>>, <<300, 302>>, <<600, 602>>, <<998, 1000>> >>
      [] f = "steep.xlsx" ->
           \* a very volatile mixture
           << <<0, 0>>, <<40, 960>>, <<500, 980>>, <<900, 995>>, <<1000, 1000>> >>
      [] f = "dip.xlsx" ->
           \* y falls between x = 0.2 and x = 0.85
           << <<0, 0>>, <<100, 300>>, <<200, 940>>, <<850, 917>>, <<900, 950>>,
              <<1000, 1000>> >>
      [] f = "blanks.xlsx" ->
           \* six rows; two of their cells are empty, see BlankCells
           << <<0, 0>>, <<200, 450>>, <<400, 650>>, <<600, 800>>, <<800, 920>>,
              <<1000, 1000>> >>
      [] f = "sparse.xlsx" ->
           << <<0, 0>>, <<500, 700>>, <<1000, 1000>> >>
      [] OTHER -> << >>

\* The empty cells <<row, column>> of each sheet: pandas reads them as NaN.
BlankCells(f) ==
    IF f = "blanks.xlsx" THEN { <<2, 2>>, <<5, 1>> } ELSE { }

\* df.iloc[:, c].dropna().values (line 323): column c without its empty
\* cells, each column on its own.
RECURSIVE DropNa(_, _, _)
DropNa(f, c, n) ==
    IF n = 0 THEN << >>
    ELSE IF <<n, c>> \in BlankCells(f) THEN DropNa(f, c, n - 1)
    ELSE Append(DropNa(f, c, n - 1), DataRows(f)[n][c])

curve_x_raw(f) == DropNa(f, 1, Len(DataRows(f)))
curve_y_raw(f) == DropNa(f, 2, Len(DataRows(f)))

-----------------------------------------------------------------------------
(* Arithmetic.                                                             *)

FMul(a, b) == (a * b) \div Den
FDiv(a, b) == (a * Den) \div b

\* np.poly1d([k, b])(x)
Poly1d(k, b, x) == FMul(k, x) + b

\* The intercepts subtracted the wrong way round.
XIntersectSwapped(kr, br, ks, bs, xf) ==
    IF kr # ks THEN FDiv(br - bs, kr - ks) ELSE xf

\* line 318
XIntersect(kr, br, ks, bs, xf) ==
    IF kr # ks THEN FDiv(bs - br, kr - ks) ELSE xf

\* Insert row r into the sequence s, ascending in column c.
RECURSIVE InsertBy(_, _, _)
InsertBy(c, r, s) ==
    IF s = << >> THEN << r >>
    ELSE IF r[c] < Head(s)[c] THEN << r >> \o s
    ELSE << Head(s) >> \o InsertBy(c, r, Tail(s))

RECURSIVE SortBy(_, _)
SortBy(c, s) ==
    IF s = << >> THEN << >>
    ELSE InsertBy(c, s[Len(s)], SortBy(c, SubSeq(s, 1, Len(s) - 1)))

\* np.argsort(curve_x_raw) (line 325): the positions of xs in ascending
\* order of value.
ArgSort(xs) ==
    LET tagged == SortBy(1, [i \in 1..Len(xs) |-> <<xs[i], i>>])
    IN  [i \in 1..Len(xs) |-> tagged[i][2]]

\* curve_y_raw[sort_idx] raises IndexError when a position is past its end.
IndexErrorIn(xs, ys) == Len(ys) < Len(xs)

\* line 326: curve_x, curve_y = curve_x_raw[sort_idx], curve_y_raw[sort_idx],
\* as the points <<curve_x[i], curve_y[i]>>.
SortedCurve(xs, ys) ==
    LET sort_idx == ArgSort(xs)
    IN  [i \in 1..Len(xs) |-> <<xs[sort_idx[i]], ys[sort_idx[i]]>>]

\* A cubic interp1d needs at least four samples; with fewer it raises.
CubicOrder == 4

\* lines 323-327 raise: an index past the end of curve_y_raw, or too few
\* samples for the cubic.
CurveRaises(f) ==
    \/ IndexErrorIn(curve_x_raw(f), curve_y_raw(f))
    \/ Len(curve_x_raw(f)) < CubicOrder

\* interp1d(curve_y, curve_x, ...): knots <<y, x>> ascending in y.
Interp1d(curve) ==
    SortBy(1, [i \in 1..Len(curve) |-> <<curve[i][2], curve[i][1]>>])

SetMax(S) == CHOOSE m \in S : \A n \in S : n <= m

\* Evaluate the interpolant with knots k at q.
Evaluate(k, q) ==
    LET below == {i \in 1..(Len(k) - 1) : k[i][1] <= q}
        i == IF below = {} THEN 1 ELSE SetMax(below)
    IN  k[i][2] + ((q - k[i][1]) * (k[i + 1][2] - k[i][2])) \div (k[i + 1][1] - k[i][1])

\* f_rect, f_strip (lines 315-316) and the call of line 336.
f_rect(x) == Poly1d(k_R, b_R, x)
f_strip(x) == Poly1d(k_S, b_S, x)

-----------------------------------------------------------------------------
(* The callback plot_graph, step by step.                                  *)

\* The cap tested with <= : one iteration too many.
LoopCondInclusive(c) == c <= max_steps

\* while count < max_steps (line 335)
LoopCond(c) == c < max_steps

\* The staircase stopped at the feed composition instead of the bottoms.
CrossedAtFeed(nx, xw) == nx < x_F

\* The staircase stopped on reaching the bottoms composition, not on passing it.
CrossedInclusive(nx, xw) == nx <= xw

\* if next_x < x_W (line 338)
Crossed(nx, xw) == nx < xw

\* The rectifying line chosen at the split abscissa too.
NextYInclusive(x) == IF x >= x_intersect THEN f_rect(x) ELSE f_strip(x)

\* if current_x > x_intersect ... else ... (lines 343-346)
NextY(x) == IF x > x_intersect THEN f_rect(x) ELSE f_strip(x)

\* The counter started at one, or left at what the last plot showed.
StartCountOne == 0 + 1
StartCountStale == IF title < 0 THEN 0 ELSE title

\* count = 0 (line 333)
StartCount == 0

NoRun == [set |-> FALSE, inp |-> default_config, file |-> "", count |-> 0,
          sx |-> << >>, sy |-> << >>]

ThisRun == [set |-> TRUE, inp |-> entries, file |-> combo_file, count |-> count,
            sx |-> steps_x, sy |-> steps_y]

Reset ==
    /\ k_R' = 0 /\ b_R' = 0 /\ k_S' = 0 /\ b_S' = 0
    /\ x_D' = 0 /\ x_F' = 0 /\ x_W' = 0 /\ x_intersect' = 0
    /\ f_curve_y_to_x' = << >>
    /\ current_x' = 0 /\ current_y' = 0 /\ next_x' = 0
    /\ count' = 0 /\ steps_x' = << >> /\ steps_y' = << >>
    /\ iter' = 0 /\ exit' = "none"

Init ==
    /\ entries = default_config
    /\ combo_file = "sqrt.xlsx"
    /\ pc = "idle"
    /\ k_R = 0 /\ b_R = 0 /\ k_S = 0 /\ b_S = 0
    /\ x_D = 0 /\ x_F = 0 /\ x_W = 0 /\ x_intersect = 0
    /\ f_curve_y_to_x = << >>
    /\ current_x = 0 /\ current_y = 0 /\ next_x = 0
    /\ count = 0 /\ steps_x = << >> /\ steps_y = << >>
    /\ iter = 0 /\ exit = "none"
    /\ title = -1
    /\ msg = "none"
    /\ prior = NoRun

\* The user fills in the form.
EditInputs ==
    /\ pc = "idle"
    /\ \E c \in InputCases : entries' = c
    /\ UNCHANGED <<combo_file, pc, locals, title, msg, prior>>
    /\ UNCHANGED others

\* The user picks a file in the combobox.  (prior remembers a run on the
\* selected sheet only.)
SelectFile ==
    /\ pc = "idle"
    /\ \E f \in excel_files :
          /\ combo_file' = f
          /\ prior' = IF f = combo_file THEN prior ELSE NoRun
    /\ UNCHANGED <<entries, pc, locals, title, msg>>
    /\ UNCHANGED others

\* plot_graph, lines 302-313: a field is not a number.
PlotInputError ==
    /\ pc = "idle"
    /\ ~AllNumeric(entries)
    /\ msg' = "input_error"
    /\ UNCHANGED <<entries, combo_file, pc, locals, title, prior>>
    /\ UNCHANGED others

\* plot_graph, lines 320-321: get_data_from_excel returned None.
PlotNoData ==
    /\ pc = "idle"
    /\ AllNumeric(entries)
    /\ combo_file \notin OnDisk
    /\ msg' = "file_error"
    /\ UNCHANGED <<entries, combo_file, pc, locals, title, prior>>
    /\ UNCHANGED others

\* plot_graph, lines 323-327: the indexing or interp1d raises; the callback ends.
PlotInterpError ==
    /\ pc = "idle"
    /\ AllNumeric(entries)
    /\ combo_file \in OnDisk
    /\ CurveRaises(combo_file)
    /\ msg' = "exception"
    /\ UNCHANGED <<entries, combo_file, pc, locals, title, prior>>
    /\ UNCHANGED others

\* plot_graph, lines 302-334: parse, build the interpolant, start the staircase.
PlotStart ==
    /\ pc = "idle"
    /\ AllNumeric(entries)
    /\ combo_file \in OnDisk
    /\ ~CurveRaises(combo_file)
    /\ k_R' = entries.rect_slope.val
    /\ b_R' = entries.rect_intercept.val
    /\ k_S' = entries.strip_slope.val
    /\ b_S' = entries.strip_intercept.val
    /\ x_D' = entries.xD.val
    /\ x_F' = entries.xF.val
    /\ x_W' = entries.xW.val
    /\ x_intersect' = XIntersect(entries.rect_slope.val, entries.rect_intercept.val,
                                 entries.strip_slope.val, entries.strip_intercept.val,
                                 entries.xF.val)
    /\ f_curve_y_to_x' = Interp1d(SortedCurve(curve_x_raw(combo_file), curve_y_raw(combo_file)))
    /\ current_x' = entries.xD.val
    /\ current_y' = entries.xD.val
    /\ steps_x' = << entries.xD.val >>
    /\ steps_y' = << entries.xD.val >>
    /\ count' = StartCount
    /\ next_x' = 0
    /\ iter' = IF LoopCond(StartCount) THEN 1 ELSE 0
    /\ exit' = IF LoopCond(StartCount) THEN "none" ELSE "cap"
    /\ pc' = IF LoopCond(StartCount) THEN "read" ELSE "draw"
    /\ msg' = "none"
    /\ UNCHANGED <<entries, combo_file, title, prior>>
    /\ UNCHANGED others

\* lines 336-337: the horizontal step.
ReadEquilibrium ==
    /\ pc = "read"
    /\ next_x' = Evaluate(f_curve_y_to_x, current_y)
    /\ steps_x' = Append(steps_x, Evaluate(f_curve_y_to_x, current_y))
    /\ steps_y' = Append(steps_y, current_y)
    /\ pc' = "check"
    /\ UNCHANGED <<entries, combo_file, k_R, b_R, k_S, b_S, x_D, x_F, x_W,
                   x_intersect, f_curve_y_to_x, current_x, current_y, count,
                   iter, exit, title, msg, prior>>
    /\ UNCHANGED others

\* lines 338-339: the termination check, and the drop to the diagonal.
CheckTermination ==
    /\ pc = "check"
    /\ IF Crossed(next_x, x_W)
       THEN /\ steps_x' = Append(steps_x, next_x)
            /\ steps_y' = Append(steps_y, next_x)
            /\ exit' = "crossed"
            /\ pc' = "draw"
       ELSE /\ pc' = "reflect"
            /\ UNCHANGED <<steps_x, steps_y, exit>>
    /\ UNCHANGED <<entries, combo_file, k_R, b_R, k_S, b_S, x_D, x_F, x_W,
                   x_intersect, f_curve_y_to_x, current_x, current_y, next_x,
                   count, iter, title, msg, prior>>
    /\ UNCHANGED others

\* lines 341-350, and the loop test of line 335 that follows.
ReflectOperatingLine ==
    /\ pc = "reflect"
    /\ current_x' = next_x
    /\ steps_x' = Append(steps_x, next_x)
    /\ steps_y' = Append(steps_y, NextY(next_x))
    /\ current_y' = NextY(next_x)
    /\ count' = count + 1
    /\ IF LoopCond(count + 1)
       THEN /\ pc' = "read"
            /\ iter' = iter + 1
            /\ exit' = exit
       ELSE /\ pc' = "draw"
            /\ iter' = iter
            /\ exit' = "cap"
    /\ UNCHANGED <<entries, combo_file, k_R, b_R, k_S, b_S, x_D, x_F, x_W,
                   x_intersect, f_curve_y_to_x, next_x, title, msg, prior>>
    /\ UNCHANGED others

\* lines 352-399: the diagram is redrawn with the count in its title.
Draw ==
    /\ pc = "draw"
    /\ title' = count
    /\ pc' = "idle"
    /\ \E keep \in BOOLEAN :
          prior' = IF keep /\ ~prior.set THEN ThisRun ELSE prior
    /\ Reset
    /\ UNCHANGED <<entries, combo_file, msg>>
    /\ UNCHANGED others

Next ==
    \/ EditInputs
    \/ SelectFile
    \/ PlotInputError
    \/ PlotNoData
    \/ PlotInterpError
    \/ PlotStart
    \/ ReadEquilibrium
    \/ CheckTermination
    \/ ReflectOperatingLine
    \/ Draw

\* A callback that has started runs to its end: Tk runs it on the one thread.
Callback == ReadEquilibrium \/ CheckTermination \/ ReflectOperatingLine \/ Draw

-----------------------------------------------------------------------------
(* Properties of the stepping loop.                                        *)

Last(s) == s[Len(s)]

\* The loop has ended and the diagram is about to be drawn.
Finished == pc = "draw"

\* C1 as stated: a run that stops because the horizontal step of its k-th
\* iteration gave x_next < x_W reports the stage count k.
C1_CountIncludesLastStage ==
    (Finished /\ exit = "crossed") => count = iter

\* C1 as the code has it: such a run reports k - 1; the terminating stage is
\* left out of the total (the title reads "plates, not counting the reboiler").
C1_CountExcludesLastStage ==
    (Finished /\ exit = "crossed") => count = iter - 1

C1_Witness ==
    Finished /\ exit = "crossed" /\ iter >= 3

\* The horizontal distance from the point of the active operating line at x
\* to the equilibrium curve at the same height: positive where the line runs
\* under the curve.
Gap(x) == x - Evaluate(f_curve_y_to_x, NextY(x))

\* The operating lines lie under the equilibrium curve between x_W and x_D.
LinesBelowCurve == \A x \in x_W..x_D : Gap(x) > 0

\* They do so by at least d, and so does the diagonal at x_D, where the
\* staircase starts.
GapAtLeast(d) ==
    /\ x_D - Evaluate(f_curve_y_to_x, x_D) >= d
    /\ \A x \in x_W..x_D : Gap(x) >= d

ValidTargets == x_W < x_F /\ x_F < x_D

\* C2 as stated: with x_W < x_F < x_D and the operating lines under the
\* curve, the run ends through the x_next < x_W check and the count is >= 1.
C2_TerminatesWithPositiveCount ==
    (Finished /\ ValidTargets /\ LinesBelowCurve)
        => (exit = "crossed" /\ count < max_steps /\ count >= 1)

\* C2 as the code has it: when the lines run under the curve by a horizontal
\* gap d with max_steps * d > x_D - x_W, every stage moves left by at least
\* d and the run ends through the x_next < x_W check within max_steps
\* iterations; the count is then iter - 1 >= 0.
C2_TerminatesGivenGap ==
    (Finished /\ ValidTargets /\ GapAtLeast((x_D - x_W) \div max_steps + 1))
        => (exit = "crossed" /\ next_x < x_W /\ iter <= max_steps
            /\ count = iter - 1 /\ count >= 0)

C2_Witness ==
    /\ Finished /\ ValidTargets
    /\ GapAtLeast((x_D - x_W) \div max_steps + 1)
    /\ exit = "crossed" /\ count >= 2

\* C3 as stated: however the loop ended, the last vertex has x <= x_W.
C3_LastVertexAtOrBelowBottoms ==
    Finished => Last(steps_x) <= x_W

\* C3 as the code has it: a run that ended by crossing x_W ends with a
\* vertex whose x is <= x_W.
C3_LastVertexBelowBottomsWhenCrossed ==
    (Finished /\ exit = "crossed") => Last(steps_x) <= x_W

C3_Witness ==
    Finished /\ exit = "crossed" /\ count >= 1 /\ Last(steps_x) < x_W

\* C4 as stated: a run that used all max_steps iterations is reported as
\* non-convergent with the count max_steps, and no run that crossed x_W is.
C4_NonConvergentReported ==
    [][ /\ (Finished /\ exit = "cap")
            => (title' = max_steps /\ msg' = "non_convergent")
        /\ (Finished /\ exit = "crossed")
            => (title' # max_steps /\ msg' # "non_convergent") ]_vars

\* C5: the loop body is entered at most max_steps times, the count never
\* exceeds max_steps, and a loop that has started reaches its end.
C5_BoundedLoop ==
    /\ [](iter <= max_steps /\ count <= max_steps)
    /\ (pc = "read") ~> Finished

C5_Witness ==
    Finished /\ exit = "cap" /\ iter = max_steps /\ count = max_steps

\* C6: during a run x_intersect is (b_S - b_R) / (k_R - k_S), rounded to the
\* grid, when the slopes differ, and x_F when they are equal.
C6_SplitAbscissa ==
    (pc # "idle") =>
        IF k_R # k_S
        THEN LET n == (b_S - b_R) * Den
                 d == k_R - k_S
             IN  IF d > 0
                 THEN d * x_intersect <= n /\ n < d * (x_intersect + 1)
                 ELSE d * x_intersect >= n /\ n > d * (x_intersect + 1)
        ELSE x_intersect = x_F

C6_Witness ==
    Finished /\ k_R = k_S /\ b_R # b_S /\ x_intersect = x_F /\ count >= 1

\* C7: the vertex a vertical step appends stands on the rectifying line when
\* its x is greater than x_intersect and on the stripping line otherwise
\* (also at x = x_intersect), straight above or below the vertex before it,
\* and it is the new current point.
C7_VerticalStepLine ==
    (pc # "idle" /\ count >= 1) =>
        LET i == 2 * count + 1
            x == steps_x[i]
            y == IF x > x_intersect
                 THEN (k_R * x) \div Den + b_R
                 ELSE (k_S * x) \div Den + b_S
        IN  /\ steps_x[i - 1] = x
            /\ steps_y[i] = y
            /\ current_x = x
            /\ current_y = y

C7_Witness ==
    /\ pc = "read" /\ count >= 1
    /\ current_x = x_intersect
    /\ (k_R * current_x) \div Den + b_R # (k_S * current_x) \div Den + b_S
    /\ current_y = (k_S * current_x) \div Den + b_S

\* C8 as stated: with equal slopes the run counts with x_intersect = x_F and
\* its result carries a degenerate-lines indication, which a run with
\* unequal slopes does not carry.
C8_DegenerateLinesFlagged ==
    [][ Finished =>
          /\ (k_R = k_S) => (x_intersect = x_F /\ title' = count
                             /\ msg' = "degenerate_operating_lines")
          /\ (k_R # k_S) => (msg' # "degenerate_operating_lines") ]_vars

\* C9 as stated: two runs with x_D = x_W report the same count, whatever
\* their curves and operating lines.
C9_FixedCountWhenTargetsCoincide ==
    (Finished /\ x_D = x_W /\ prior.set /\ prior.inp.xD = prior.inp.xW)
        => count = prior.count

\* C10: a run on the same entries and the same file as an earlier run ends
\* with the same count and the same vertices, whatever was plotted between.
C10_SameInputsSameOutputs ==
    (Finished /\ prior.set /\ prior.inp = entries /\ prior.file = combo_file)
        => (count = prior.count /\ steps_x = prior.sx /\ steps_y = prior.sy)

C10_Witness ==
    /\ Finished /\ prior.set /\ prior.inp = entries /\ prior.file = combo_file
    /\ count >= 2 /\ title >= 0 /\ title # count

-----------------------------------------------------------------------------
(* Two runs on the same curve with the same targets.                       *)

\* The abscissas at which two pairs of operating lines are compared.
XRange == (0 - Den)..(2 * Den)

\* The active operating line of the form e at x: the rectifying line right
\* of the split abscissa, the stripping line at and left of it (lines 318,
\* 343-346).
LineAt(e, x) ==
    IF x > XIntersect(e.rect_slope.val, e.rect_intercept.val,
                      e.strip_slope.val, e.strip_intercept.val, e.xF.val)
    THEN Poly1d(e.rect_slope.val, e.rect_intercept.val, x)
    ELSE Poly1d(e.strip_slope.val, e.strip_intercept.val, x)

\* The lines of e lie at least as far below the curve as those of d.
AtLeastAsFarBelow(e, d) == \A x \in XRange : LineAt(e, x) <= LineAt(d, x)

\* The active line of e never falls as x grows.
NonDecreasingLine(e) ==
    \A x \in XRange : x + 1 \in XRange => LineAt(e, x) <= LineAt(e, x + 1)

\* The interpolant never falls as y grows.
NonDecreasingCurve ==
    \A i \in 1..(Len(f_curve_y_to_x) - 1) :
        f_curve_y_to_x[i][2] <= f_curve_y_to_x[i + 1][2]

\* The finished run and the remembered one used the same sheet and targets.
SameCurveAndTargets ==
    /\ Finished
    /\ prior.set
    /\ prior.file = combo_file
    /\ prior.inp.xD = entries.xD
    /\ prior.inp.xF = entries.xF
    /\ prior.inp.xW = entries.xW

\* C11 as stated: with the same curve and targets, operating lines that lie at
\* least as far below the curve at every x never need more stages.
C11_LowerLinesNeverMoreStages ==
    SameCurveAndTargets =>
        /\ AtLeastAsFarBelow(entries, prior.inp) => count <= prior.count
        /\ AtLeastAsFarBelow(prior.inp, entries) => prior.count <= count

\* C11 as the code has it: the lower lines never need more stages when the
\* interpolant and the lower active line are non-decreasing; equal slopes with
\* the rectifying line under the stripping line make the active line fall at
\* x_F, and then the lower lines can need more stages.
C11_LowerMonotoneLinesNeverMoreStages ==
    (SameCurveAndTargets /\ NonDecreasingCurve) =>
        /\ (AtLeastAsFarBelow(entries, prior.inp) /\ NonDecreasingLine(entries))
              => count <= prior.count
        /\ (AtLeastAsFarBelow(prior.inp, entries) /\ NonDecreasingLine(prior.inp))
              => prior.count <= count

C11_Witness ==
    /\ SameCurveAndTargets
    /\ NonDecreasingCurve
    /\ AtLeastAsFarBelow(entries, prior.inp)
    /\ NonDecreasingLine(entries)
    /\ ~AtLeastAsFarBelow(prior.inp, entries)
    /\ exit = "crossed"
    /\ count < prior.count

-----------------------------------------------------------------------------
(* Errors and rejected requests.                                           *)

\* C12 as stated: whatever the equilibrium sheet holds (few points, data out
\* of order, repeated values), the computation runs to its end and gives a
\* count, the vertices and a status: no plot request ends in an exception
\* that nothing handles.
C12_NeverAborts == msg # "exception"

\* A composition inside [0, 1].
InUnit(v) == 0 <= v /\ v <= Den

\* A form the specification calls invalid: a field that is no number, or a
\* target composition outside [0, 1].
InvalidInput(e) ==
    \/ ~AllNumeric(e)
    \/ ~InUnit(e.xD.val)
    \/ ~InUnit(e.xF.val)
    \/ ~InUnit(e.xW.val)

\* C13 as stated: a plot request on an invalid form is rejected before the
\* first iteration: the loop is not entered, no vertex and no count are
\* produced, and the diagram shown stays as it was.
C13_InvalidInputRejected ==
    [][(pc = "idle" /\ InvalidInput(entries))
          => (pc' = "idle" /\ UNCHANGED <<locals, title>>)]_vars

-----------------------------------------------------------------------------
(* The curve built from the sheet.                                         *)

\* The rows of sheet f with both cells filled in.
CompleteRows(f) ==
    { DataRows(f)[n] : n \in { i \in 1..Len(DataRows(f)) :
                                   <<i, 1>> \notin BlankCells(f)
                                /\ <<i, 2>> \notin BlankCells(f) } }

\* The points <<x, y>> the interpolant of the running plot goes through.
CurvePoints ==
    { <<f_curve_y_to_x[i][2], f_curve_y_to_x[i][1]>> :
          i \in 1..Len(f_curve_y_to_x) }

\* C14 as stated: once the curve is built its points are in ascending x order
\* and are the input pairs rearranged: every point <<x, y>> of the curve is a
\* pair that one row of the sheet supplied together.
C14_CurveIsSortedInputPairs ==
    (pc # "idle") =>
        LET curve == SortedCurve(curve_x_raw(combo_file), curve_y_raw(combo_file))
        IN  /\ \A i \in 1..(Len(curve) - 1) : curve[i][1] <= curve[i + 1][1]
            /\ CurvePoints = CompleteRows(combo_file)

-----------------------------------------------------------------------------
(* The phases of the loop.                                                 *)

\* C15: in every iteration the phases come in the order ReadEquilibrium,
\* CheckTermination, ReflectOperatingLine; the reflection is reached only from
\* a check that did not fire; the loop is left (Done) only from a check that
\* found next_x < x_W or from a reflection that brought the count to max_steps;
\* and once it is left the only step is the drawing, which shows the count
\* and the vertices as they were on leaving.
C15_PhaseOrder ==
    [][/\ pc = "read" => pc' = "check"
       /\ pc = "check" =>
             IF next_x < x_W
             THEN pc' = "draw" /\ exit' = "crossed" /\ count' = count
             ELSE pc' = "reflect" /\ steps_x' = steps_x
       /\ pc' = "reflect" => (pc = "check" /\ ~(next_x < x_W))
       /\ pc = "reflect" =>
             /\ count' = count + 1
             /\ IF count' < max_steps
                THEN pc' = "read" /\ iter' = iter + 1
                ELSE pc' = "draw" /\ exit' = "cap"
       /\ pc' = "read" => pc \in {"idle", "reflect"}
       /\ pc' = "draw" => pc \in {"check", "reflect"}
       /\ pc = "draw" =>
             /\ pc' = "idle"
             /\ title' = count
             /\ prior' # prior =>
                   (prior'.count = count /\ prior'.sx = steps_x /\ prior'.sy = steps_y)
      ]_vars

C15_Witness ==
    /\ pc = "draw"
    /\ exit = "crossed"
    /\ iter = 4
    /\ Len(steps_x) = 2 * iter + 1
    /\ count = 3

\* C26: the staircase is well formed at every point of the loop: its first
\* vertex is (x_D, x_D); the two lists have the same length, 1 + 2*count at
\* each loop head; every horizontal-step vertex has the y of the vertex
\* before it, every vertex after one has the x of the vertex before it, and
\* the last vertex of a run that crossed x_W is (x_next, x_next).
C26_StaircaseWellFormed ==
    (pc # "idle") =>
        /\ Len(steps_x) = Len(steps_y)
        /\ steps_x[1] = x_D /\ steps_y[1] = x_D
        /\ pc = "read" => Len(steps_x) = 1 + 2 * count
        /\ pc \in {"check", "reflect"} => Len(steps_x) = 2 + 2 * count
        /\ \A i \in 2..Len(steps_x) :
              IF i % 2 = 0
              THEN steps_y[i] = steps_y[i - 1]
              ELSE steps_x[i] = steps_x[i - 1]
        /\ (pc = "draw" /\ exit = "crossed") =>
              /\ Len(steps_x) = 3 + 2 * count
              /\ Last(steps_x) = next_x /\ Last(steps_y) = next_x
        /\ (pc = "draw" /\ exit = "cap") => Len(steps_x) = 1 + 2 * count

\* Two full stages drawn and the drop to the diagonal made.
C26_Witness ==
    /\ pc = "draw"
    /\ exit = "crossed"
    /\ count = 2
    /\ Len(steps_x) = 7
    /\ steps_y[7] = steps_x[6]
    /\ steps_x[3] # steps_x[1]

\* C27: the count reported is max_steps exactly when the loop ran out of
\* iterations without the test x_next < x_W firing; a run that ends by
\* crossing x_W reports a count below max_steps.
C27_CapIffMaxSteps ==
    [][pc = "draw" =>
          /\ title' = count
          /\ (title' = max_steps) <=> (exit = "cap")
          /\ (exit = "crossed") => (title' < max_steps)
          /\ exit \in {"cap", "crossed"}
      ]_vars

\* A long run that ended by crossing x_W.
C27_Witness ==
    /\ pc = "draw"
    /\ exit = "crossed"
    /\ count > 20
    /\ count < max_steps
    /\ Last(steps_x) < x_W

-----------------------------------------------------------------------------
(* The tray-loading diagram: plot_diagram of 塔板负荷性能图.py.            *)
(* Flows are counted in whole multiples of epsilon, the tolerance of line  *)
(* 593; a product or root is rounded toward minus infinity to that grid.   *)

\* epsilon = 1e-6: the tolerance, and here the unit of Ls and Vs.
epsilon == 1

\* The largest liquid flow fsolve returns.
MaxLs == 12

\* The form of the float-valve tray ("浮阀塔", suffix _FL) ...
FL(C1, C2, C3, Ls_max, Ls_min, Op_Vs, Op_Ls, A, B, Vs_min_const) ==
    [plate_type |-> "FL", C1 |-> C1, C2 |-> C2, C3 |-> C3,
     Ls_max |-> Ls_max, Ls_min |-> Ls_min, Op_Vs |-> Op_Vs, Op_Ls |-> Op_Ls,
     A |-> A, B |-> B, Vs_min_const |-> Vs_min_const,
     C_sl |-> 0, D_sl |-> 0, W_C1 |-> 0, W_C2 |-> 0, W_C3 |-> 0]

\* ... and of the sieve tray ("筛板塔", suffix _SL).
SL(C1, C2, C3, Ls_max, Ls_min, Op_Vs, Op_Ls, C_sl, D_sl, W_C1, W_C2, W_C3) ==
    [plate_type |-> "SL", C1 |-> C1, C2 |-> C2, C3 |-> C3,
     Ls_max |-> Ls_max, Ls_min |-> Ls_min, Op_Vs |-> Op_Vs, Op_Ls |-> Op_Ls,
     A |-> 0, B |-> 0, Vs_min_const |-> 0,
     C_sl |-> C_sl, D_sl |-> D_sl, W_C1 |-> W_C1, W_C2 |-> W_C2, W_C3 |-> W_C3]

\* The forms a user fills in.
TrayCases ==
    { \* weeping at Ls = 2, mist at Ls = 7, flooding at Ls = 10
      FL(500, -1, 0, 9, 1, 8, 4, -1, 21, 4),
      \* the same tray, the Vs,min and Ls,min fields left at 0
      FL(500, -1, 0, 9, 0, 8, 4, -1, 21, 0),
      \* a narrow liquid range
      FL(500, -1, 0, 6, 4, 8, 4, -1, 21, 4),
      \* the mist line met below the weeping line
      FL(500, -1, 0, 9, 1, 8, 4, -1, 21, 16),
      \* mist and flooding lines that run above the operating line and never
      \* meet it
      FL(5, 4, 0, 9, 1, 8, 4, 2, 5, 4),
      \* no vapour at the operating point: the operating line is Vs = 0
      FL(100, -1, 0, 9, 1, 0, 4, -2, 20, 4),
      \* Ls,max left at 0; Ls,min not below Ls,max
      FL(500, -1, 0, 0, 1, 8, 4, -1, 21, 4),
      FL(500, -1, 0, 9, 9, 8, 4, -1, 21, 4),
      \* a sieve tray
      SL(512, -1, -3, 9, 1, 8, 4, -2, 24, 2, 3, 1) }

Max0(v) == IF v < 0 THEN 0 ELSE v

\* np.maximum(1e-9, ls): 1e-9 lies under the grid.
Clip(ls) == Max0(ls)

\* np.sqrt, rounded down.
ISqrt(n) == CHOOSE r \in 0..n : r * r <= n /\ n < (r + 1) * (r + 1)

\* ls ** (2 / 3.0), rounded down.
Pow23(ls) == CHOOSE r \in 0..ls : r * r * r <= ls * ls /\ ls * ls < (r + 1) * (r + 1) * (r + 1)

\* lines 549-552
flood_func(p, ls) ==
    ISqrt(Max0(p.C1 + p.C2 * (Clip(ls) * Clip(ls)) + p.C3 * Pow23(Clip(ls))))

\* lines 561 and 572-574
mist_func(p, ls) ==
    IF p.plate_type = "FL" THEN p.A * ls + p.B
    ELSE p.C_sl * Pow23(Clip(ls)) + p.D_sl

\* lines 562 and 576-579
weeping_func(p, ls) ==
    IF p.plate_type = "FL" THEN p.Vs_min_const
    ELSE p.W_C1 * ISqrt(Max0(p.W_C2 + p.W_C3 * Pow23(Clip(ls))))

\* k * ls with k = Op_Vs / Op_Ls (line 586; Op_Ls > 0 after line 535).
OperatingLine(p, ls) == (p.Op_Vs * ls) \div p.Op_Ls

target_func(p, name, ls) ==
    CASE name = "Mist" -> mist_func(p, ls)
      [] name = "Flood" -> flood_func(p, ls)
      [] OTHER -> weeping_func(p, ls)

\* fsolve(lambda ls: target_func(ls) - k * ls, initial_guess, full_output=True)
\* (line 606): a root where there is one; where there is none the iteration
\* stops without converging, and plot_diagram takes its last iterate all the
\* same (the flag of full_output is never read).
FSolve(p, name) ==
    LET roots == { ls \in 0..MaxLs : target_func(p, name, ls) = OperatingLine(p, ls) }
    IN  IF roots = {} THEN 0..MaxLs ELSE roots

\* lines 597-602
name_key(p, name) ==
    IF name = "Weeping" /\ p.plate_type = "FL" THEN "Vs_min" ELSE name

\* The test of the upper curves dropped.
UpperValidAlways(p, L_i, V_i) == TRUE

\* lines 623-626: a point of an upper curve must not lie under the weeping line.
UpperValid(p, L_i, V_i) == V_i >= weeping_func(p, L_i) - epsilon

\* lines 627-630: a point of the weeping line must not lie over an upper curve.
LowerValid(p, L_i, V_i) ==
    V_i <= mist_func(p, L_i) + epsilon /\ V_i <= flood_func(p, L_i) + epsilon

Point(L, V, src) == [Ls |-> L, Vs |-> V, Source |-> src]

\* solve_and_collect (lines 596-636) with fsolve's answer L_i: the points it
\* appends to all_intersections.
solve_and_collect(p, name, L_i) ==
    LET V_i == OperatingLine(p, L_i)
        is_valid == IF name \in {"Flood", "Mist"}
                    THEN UpperValid(p, L_i, V_i)
                    ELSE LowerValid(p, L_i, V_i)
    IN  IF /\ L_i > epsilon /\ V_i > epsilon
           /\ p.Ls_min - epsilon <= L_i /\ L_i <= p.Ls_max + epsilon
           /\ is_valid
        THEN << Point(L_i, V_i, name_key(p, name)) >>
        ELSE << >>

\* lines 647-655: the operating line at Ls_max.
LsMaxPoint(p) ==
    LET L_i_max == p.Ls_max
        V_i_max == OperatingLine(p, L_i_max)
    IN  IF /\ V_i_max > epsilon /\ L_i_max > 0 /\ L_i_max >= p.Ls_min - epsilon
           /\ weeping_func(p, L_i_max) - epsilon <= V_i_max
           /\ V_i_max <= mist_func(p, L_i_max) + epsilon
           /\ V_i_max <= flood_func(p, L_i_max) + epsilon
        THEN << Point(L_i_max, V_i_max, "Ls_max") >>
        ELSE << >>

\* lines 658-666: the operating line at Ls_min.
LsMinPoint(p) ==
    LET L_i_min == p.Ls_min
        V_i_min == OperatingLine(p, L_i_min)
    IN  IF /\ V_i_min > epsilon /\ L_i_min > 0 /\ L_i_min <= p.Ls_max + epsilon
           /\ weeping_func(p, L_i_min) - epsilon <= V_i_min
           /\ V_i_min <= mist_func(p, L_i_min) + epsilon
           /\ V_i_min <= flood_func(p, L_i_min) + epsilon
        THEN << Point(L_i_min, V_i_min, "Ls_min") >>
        ELSE << >>

Min2(a, b) == IF a <= b THEN a ELSE b

\* lines 683-693: the test that admits a point to valid_points.
InRegion(p, pt) ==
    /\ weeping_func(p, pt.Ls) - epsilon <= pt.Vs
    /\ pt.Vs <= Min2(mist_func(p, pt.Ls), flood_func(p, pt.Ls)) + epsilon
    /\ p.Ls_min - epsilon <= pt.Ls
    /\ pt.Ls <= p.Ls_max + epsilon

\* line 535
InvalidParams(p) == p.Ls_max <= 0 \/ p.Op_Ls <= 0 \/ p.Ls_min >= p.Ls_max

\* lines 699-700
min_pt(pts) == pts[1]
max_pt(pts) == pts[Len(pts)]

\* One valid point taken to be enough.
EnoughPointsOne(pts) == Len(pts) >= 1

\* line 696
EnoughPoints(pts) == Len(pts) >= 2

TrayInit ==
    /\ inputs = FL(500, -1, 0, 9, 1, 8, 4, -1, 21, 4)
    /\ all_intersections = << >>
    /\ valid_points = << >>
    /\ Vs_min_val = 0
    /\ Vs_max_val = 0
    /\ E_op = 0
    /\ canvas = "empty"

\* plot_diagram on the form c, lines 522-540: the parameters are refused.
PlotInvalid ==
    /\ \E c \in TrayCases : inputs' = c
    /\ InvalidParams(inputs')
    /\ canvas' = "invalid"
    /\ all_intersections' = << >>
    /\ valid_points' = << >>
    /\ Vs_min_val' = 0
    /\ Vs_max_val' = 0
    /\ E_op' = 0
    /\ UNCHANGED <<stage_vars, launcher_vars, time_vars, params_vars, valve_vars>>

\* plot_diagram on the form c, lines 522-714, and the drawing that follows.
PlotDiagram ==
    \E c \in TrayCases :
    /\ inputs' = c
    /\ ~InvalidParams(c)
    /\ \E L_mist \in FSolve(c, "Mist"), L_flood \in FSolve(c, "Flood"),
          L_weep \in FSolve(c, "Weeping") :
          LET found == solve_and_collect(c, "Mist", L_mist)
                       \o solve_and_collect(c, "Flood", L_flood)
                       \o solve_and_collect(c, "Weeping", L_weep)
                       \o LsMaxPoint(c)
                       \o LsMinPoint(c)
              sorted == SortBy("Vs", found)
              Keep(pt) == InRegion(c, pt)
              pts == SelectSeq(sorted, Keep)
          IN  /\ all_intersections' = sorted
              /\ valid_points' = pts
              /\ Vs_min_val' = IF EnoughPoints(pts) THEN min_pt(pts).Vs ELSE 0
              /\ Vs_max_val' = IF EnoughPoints(pts) THEN max_pt(pts).Vs ELSE 0
              /\ E_op' = IF EnoughPoints(pts) /\ min_pt(pts).Vs > 0
                         THEN (max_pt(pts).Vs * Den) \div min_pt(pts).Vs
                         ELSE 0
    /\ canvas' = "diagram"
    /\ UNCHANGED <<stage_vars, launcher_vars, time_vars, params_vars, valve_vars>>

TrayNext ==
    \/ PlotInvalid
    \/ PlotDiagram

-----------------------------------------------------------------------------
(* Properties of the tray-loading diagram.                                 *)

SetMin(S) == CHOOSE m \in S : \A n \in S : m <= n

\* The vapour rates of a sequence of points.
VsOf(pts) == { pts[i].Vs : i \in 1..Len(pts) }

\* The limits shown are the least and the greatest vapour rate of the valid
\* points, and the flexibility is their quotient.
LimitsFromValidPoints ==
    /\ Vs_min_val = SetMin(VsOf(valid_points))
    /\ Vs_max_val = SetMax(VsOf(valid_points))
    /\ E_op = (SetMax(VsOf(valid_points)) * Den) \div SetMin(VsOf(valid_points))

\* C16 as stated: whenever at least one valid intersection exists, Vs_min is
\* the least and Vs_max the greatest vapour rate over the valid
\* intersections, and the flexibility is Vs_max / Vs_min.
C16_LimitsFromOneValidPoint ==
    (canvas = "diagram" /\ Len(valid_points) >= 1) => LimitsFromValidPoints

\* C16 as the code has it: the limits and the flexibility are taken from the
\* valid intersections when there are at least two of them; with one or none
\* Vs_min, Vs_max and the flexibility are all 0.
C16_LimitsFromTwoValidPoints ==
    canvas = "diagram" =>
        IF Len(valid_points) >= 2
        THEN LimitsFromValidPoints
        ELSE Vs_min_val = 0 /\ Vs_max_val = 0 /\ E_op = 0

C16_Witness ==
    /\ canvas = "diagram"
    /\ Len(valid_points) >= 3
    /\ Vs_min_val < Vs_max_val
    /\ E_op > Den

\* C17: every point kept as valid has Ls within [Ls_min - epsilon,
\* Ls_max + epsilon] and Vs within [weeping(Ls) - epsilon,
\* min(mist(Ls), flood(Ls)) + epsilon]; a collected intersection with the mist
\* or the flooding line does not lie below the weeping line, and a collected
\* intersection with the weeping line lies above neither upper line.
C17_ValidPointsInsideRegion ==
    canvas = "diagram" =>
        /\ \A i \in 1..Len(valid_points) :
              LET L == valid_points[i].Ls
                  V == valid_points[i].Vs
              IN  /\ inputs.Ls_min - epsilon <= L /\ L <= inputs.Ls_max + epsilon
                  /\ weeping_func(inputs, L) - epsilon <= V
                  /\ V <= mist_func(inputs, L) + epsilon
                  /\ V <= flood_func(inputs, L) + epsilon
        /\ \A i \in 1..Len(all_intersections) :
              LET L == all_intersections[i].Ls
                  V == all_intersections[i].Vs
                  src == all_intersections[i].Source
              IN  /\ src \in {"Mist", "Flood"} => V >= weeping_func(inputs, L) - epsilon
                  /\ src \in {"Weeping", "Vs_min"} =>
                        (V <= mist_func(inputs, L) + epsilon
                         /\ V <= flood_func(inputs, L) + epsilon)

C17_Witness ==
    /\ canvas = "diagram"
    /\ \E i, j \in 1..Len(valid_points) :
          valid_points[i].Source = "Vs_min" /\ valid_points[j].Source = "Mist"
    /\ \E i \in 1..Len(all_intersections) :
          /\ all_intersections[i].Source = "Flood"
          /\ \A j \in 1..Len(valid_points) : valid_points[j] # all_intersections[i]

-----------------------------------------------------------------------------
(* The network clock: get_network_time and is_within_date_range.           *)
(* A time is a whole number of ticks since midnight of day 0, Beijing time. *)

\* Ticks per second: the servers report fractions of a second.
SecondTicks == 2

MinuteTicks == 60 * SecondTicks
DayTicks == 24 * 60 * MinuteTicks

\* The keys of API_SOURCES (lines 13-22).
API_SOURCES == {"Taobao", "Suning", "Tencent", "WorldTime"}

\* Date texts: 'YYYY-MM-DD HH:MM', 'YYYY-MM-DD', or neither.
AtMinute(d, m) == [fmt |-> "minute", day |-> d, minute |-> m]
OnDay(d) == [fmt |-> "day", day |-> d, minute |-> 0]
BadDate == [fmt |-> "bad", day |-> 0, minute |-> 0]

\* The limits an application is given.
RangeCases ==
    { [start |-> OnDay(1), end |-> OnDay(1)],
      [start |-> OnDay(0), end |-> OnDay(2)],
      [start |-> AtMinute(1, 480), end |-> AtMinute(1, 1080)],
      [start |-> OnDay(1), end |-> BadDate],
      [start |-> OnDay(2), end |-> OnDay(0)] }

\* The instants at which the servers are asked.
NowCases ==
    { DayTicks - 1,                       \* the last tick of day 0
      DayTicks,                           \* day 1, 00:00:00
      2 * DayTicks - SecondTicks,         \* day 1, 23:59:59
      DayTicks + 9 * 60 * MinuteTicks,    \* day 1, 09:00
      2 * DayTicks - 1,                   \* day 1, past 23:59:59
      2 * DayTicks + MinuteTicks }        \* day 2, 00:01

\* datetime.strptime(text, '%Y-%m-%d %H:%M') and (text, '%Y-%m-%d')
ParsesAsMinute(text) == text.fmt = "minute"
ParsesAsDay(text) == text.fmt = "day"

\* lines 118-123
start_date(text) ==
    IF ParsesAsMinute(text) THEN text.day * DayTicks + text.minute * MinuteTicks
    ELSE text.day * DayTicks

\* A date alone taken to end as it starts, at 00:00.
end_date_midnight(text) ==
    IF ParsesAsMinute(text) THEN text.day * DayTicks + text.minute * MinuteTicks
    ELSE text.day * DayTicks

\* lines 125-131: a date alone ends at 23:59:59 of its day.
end_date(text) ==
    IF ParsesAsMinute(text) THEN text.day * DayTicks + text.minute * MinuteTicks
    ELSE text.day * DayTicks + (23 * 60 + 59) * MinuteTicks + 59 * SecondTicks

\* No time: the None of lines 85 and 103.
None == [some |-> FALSE, from |-> "", t |-> 0]
Time(src, t) == [some |-> TRUE, from |-> src, t |-> t]

\* The comparisons of lines 116-142 on a time given.
Verdict(t, s, e) ==
    IF ~(ParsesAsMinute(s) \/ ParsesAsDay(s)) \/ ~(ParsesAsMinute(e) \/ ParsesAsDay(e))
    THEN <<FALSE, "FORMAT_ERROR">>
    ELSE IF t < start_date(s) THEN <<FALSE, "NOT_STARTED">>
    ELSE IF t > end_date(e) THEN <<FALSE, "EXPIRED">>
    ELSE <<TRUE, "VALID">>

\* The check for a missing network time left out.
is_within_date_range_unchecked(current_time, s, e) == Verdict(current_time.t, s, e)

\* is_within_date_range (lines 105-142) once get_network_time has returned
\* current_time.
is_within_date_range(current_time, s, e) ==
    IF ~current_time.some THEN <<FALSE, "NETWORK_ERROR">>
    ELSE Verdict(current_time.t, s, e)

TimeInit ==
    /\ call = "idle"
    /\ args = [start |-> OnDay(1), end |-> OnDay(1)]
    /\ now = DayTicks - 1
    /\ worker = [src \in API_SOURCES |-> "idle"]
    /\ first_time = ""
    /\ snapshot = {}
    /\ queue = << >>
    /\ dt = None
    /\ range_result = <<FALSE, "">>

\* is_within_date_range is called (line 105); get_network_time submits one
\* fetch_time_worker per source (lines 92-93).
RangeCall ==
    /\ call \in {"idle", "returned"}
    /\ \E a \in RangeCases, t \in NowCases : args' = a /\ now' = t
    /\ worker' = [src \in API_SOURCES |-> "running"]
    /\ first_time' = ""
    /\ snapshot' = {}
    /\ queue' = << >>
    /\ dt' = None
    /\ range_result' = <<FALSE, "">>
    /\ call' = "submitted"
    /\ UNCHANGED <<stage_vars, tray_vars, launcher_vars, params_vars, valve_vars>>

\* A fetch_time_worker returns (lines 24-85): a time, or None after any
\* failure.  Its future is done; as_completed, if already called, is told.
WorkerReturns ==
    /\ call \in {"submitted", "iterating", "shutdown"}
    /\ \E src \in API_SOURCES, out \in {"time", "none"} :
          /\ worker[src] = "running"
          /\ worker' = [worker EXCEPT ![src] = out]
          /\ first_time' = IF out = "time" /\ first_time = "" THEN src ELSE first_time
          /\ queue' = IF call = "iterating" THEN Append(queue, src) ELSE queue
    /\ UNCHANGED <<call, args, now, snapshot, dt, range_result>>
    /\ UNCHANGED <<stage_vars, tray_vars, launcher_vars, params_vars, valve_vars>>

\* as_completed(future_to_url) is entered (line 96): the futures done by now
\* are set aside, to be yielded first, in no particular order.
AsCompleted ==
    /\ call = "submitted"
    /\ snapshot' = { src \in API_SOURCES : worker[src] # "running" }
    /\ call' = "iterating"
    /\ UNCHANGED <<args, now, worker, first_time, queue, dt, range_result>>
    /\ UNCHANGED <<stage_vars, tray_vars, launcher_vars, params_vars, valve_vars>>

\* What the loop body (lines 97-102) does with the future of src.
Examine(src) ==
    IF worker[src] = "time"
    THEN dt' = Time(src, now) /\ call' = "shutdown"
    ELSE dt' = dt /\ call' = call

\* The loop takes the next future (line 96): one of those set aside, else
\* the oldest of those done since.
NextFuture ==
    /\ call = "iterating"
    /\ \/ \E src \in snapshot :
             /\ snapshot' = snapshot \ {src}
             /\ queue' = queue
             /\ Examine(src)
       \/ /\ snapshot = {}
          /\ queue # << >>
          /\ queue' = Tail(queue)
          /\ snapshot' = snapshot
          /\ Examine(Head(queue))
    /\ UNCHANGED <<args, now, worker, first_time, range_result>>
    /\ UNCHANGED <<stage_vars, tray_vars, launcher_vars, params_vars, valve_vars>>

\* Every future was taken and none held a time: line 103.
NoneLeft ==
    /\ call = "iterating"
    /\ snapshot = {}
    /\ queue = << >>
    /\ \A src \in API_SOURCES : worker[src] # "running"
    /\ dt' = None
    /\ call' = "shutdown"
    /\ UNCHANGED <<args, now, worker, first_time, snapshot, queue, range_result>>
    /\ UNCHANGED <<stage_vars, tray_vars, launcher_vars, params_vars, valve_vars>>

\* The with block ends (line 92): the executor waits for its workers; then
\* get_network_time returns and is_within_date_range decides (lines 111-142).
RangeReturn ==
    /\ call = "shutdown"
    /\ \A src \in API_SOURCES : worker[src] # "running"
    /\ range_result' = is_within_date_range(dt, args.start, args.end)
    /\ call' = "returned"
    /\ UNCHANGED <<args, now, worker, first_time, snapshot, queue, dt>>
    /\ UNCHANGED <<stage_vars, tray_vars, launcher_vars, params_vars, valve_vars>>

TimeNext ==
    \/ RangeCall
    \/ WorkerReturns
    \/ AsCompleted
    \/ NextFuture
    \/ NoneLeft
    \/ RangeReturn

\* Every source failed or gave no time.
AllFailed == \A src \in API_SOURCES : worker[src] = "none"

\* C19: is_within_date_range decides from the network time alone: when every
\* source fails it returns (False, "NETWORK_ERROR") whatever the start and end
\* texts are, and it never returns True without a time from a server.
C19_NetworkTimeOnly ==
    call = "returned" =>
        /\ AllFailed => range_result = <<FALSE, "NETWORK_ERROR">>
        /\ range_result[1] => (dt.some /\ dt.t = now /\ worker[dt.from] = "time")

C19_Witness ==
    /\ call = "returned"
    /\ AllFailed
    /\ args.start = OnDay(0)
    /\ args.end = OnDay(2)
    /\ now = DayTicks + 9 * 60 * MinuteTicks
    /\ range_result = <<FALSE, "NETWORK_ERROR">>

\* C20 as stated: get_network_time returns None exactly when every worker
\* failed or produced no time; otherwise it returns the time of the worker
\* that was first to complete with one, in whatever order the workers
\* complete.
C20_EarliestTimeReturned ==
    call = "returned" =>
        /\ ~dt.some <=> AllFailed
        /\ dt.some => dt.from = first_time

\* The instants a well-formed text stands for: 00:00 of a day alone as a
\* start, one second before the next midnight as an end.
WellFormed(text) == text.fmt \in {"minute", "day"}
StartInstant(text) ==
    IF text.fmt = "day" THEN text.day * DayTicks
    ELSE text.day * DayTicks + text.minute * MinuteTicks
EndInstant(text) ==
    IF text.fmt = "day" THEN (text.day + 1) * DayTicks - SecondTicks
    ELSE text.day * DayTicks + text.minute * MinuteTicks

\* A call that returned with a network time.
DecidedWithTime == call = "returned" /\ dt.some

\* C21 as stated: with a network time t and well-formed limits the result
\* is NOT_STARTED iff t is strictly before start, EXPIRED iff t is strictly
\* after end, and VALID otherwise; a malformed start or end gives False.
C21_VerdictByBounds ==
    DecidedWithTime =>
        IF WellFormed(args.start) /\ WellFormed(args.end)
        THEN /\ range_result[2] = "NOT_STARTED" <=> dt.t < StartInstant(args.start)
             /\ range_result[2] = "EXPIRED" <=> dt.t > EndInstant(args.end)
             /\ range_result = <<TRUE, "VALID">>
                   <=> (StartInstant(args.start) <= dt.t /\ dt.t <= EndInstant(args.end))
        ELSE ~range_result[1]

\* C21, amended: with a network time t and well-formed limits the result is
\* NOT_STARTED iff t is strictly before start, EXPIRED iff t is at or after
\* start and strictly after end, and VALID iff start <= t <= end, a day
\* alone standing for 00:00 as a start and 23:59:59 as an end; True is
\* returned with VALID only, and a malformed start or end gives False.
C21_VerdictStartFirst ==
    DecidedWithTime =>
        IF WellFormed(args.start) /\ WellFormed(args.end)
        THEN /\ range_result[2] = "NOT_STARTED" <=> dt.t < StartInstant(args.start)
             /\ range_result[2] = "EXPIRED"
                   <=> (dt.t >= StartInstant(args.start) /\ dt.t > EndInstant(args.end))
             /\ range_result = <<TRUE, "VALID">>
                   <=> (StartInstant(args.start) <= dt.t /\ dt.t <= EndInstant(args.end))
             /\ range_result[1] <=> range_result[2] = "VALID"
        ELSE ~range_result[1] /\ range_result[2] # "VALID"

\* A day alone as both limits, asked at 23:59:59 of that day: still valid.
C21_Witness ==
    /\ DecidedWithTime
    /\ args = [start |-> OnDay(1), end |-> OnDay(1)]
    /\ dt.t = 2 * DayTicks - SecondTicks
    /\ range_result = <<TRUE, "VALID">>

-----------------------------------------------------------------------------
(* The launcher: teacher or student mode from the executable's overlay.    *)

\* The longest tail of chunks after the program's own bytes.
MaxChunks == 3

\* OVERLAY_SEPARATOR (line 36), as one chunk.
OVERLAY_SEPARATOR == "<<<STUDENT_CONFIG_START>>>"

\* The limits dictionaries of the JSON texts modelled: the applications
\* that carry a date range.
LimitsL1 == [app \in {"plates"} |-> [start |-> OnDay(1), end |-> OnDay(1)]]
LimitsL2 ==
    [app \in {"plates", "trays"} |->
        IF app = "plates" THEN [start |-> OnDay(0), end |-> AtMinute(1, 1080)]
        ELSE [start |-> OnDay(1), end |-> BadDate]]

\* No limits: the empty dictionary.
NoLimits == [app \in {} |-> [start |-> BadDate, end |-> BadDate]]

\* Chunks that are JSON texts, and what json.loads makes of them.
JsonChunks == {"student_L1", "student_L2", "teacher_json"}

json_loads(chunk) ==
    CASE chunk = "student_L1" -> [mode |-> "student", limits |-> LimitsL1]
      [] chunk = "student_L2" -> [mode |-> "student", limits |-> LimitsL2]
      [] OTHER -> [mode |-> "teacher", limits |-> NoLimits]

\* The chunks a file is made of: program bytes (no valid UTF-8), the
\* separator, JSON texts, and text that is no JSON.
Chunks == {"code", OVERLAY_SEPARATOR, "junk"} \cup JsonChunks

RECURSIVE SeqsUpTo(_, _)
SeqsUpTo(S, n) ==
    IF n = 0 THEN { << >> }
    ELSE LET shorter == SeqsUpTo(S, n - 1)
         IN  shorter \cup { Append(q, c) : q \in shorter, c \in S }

\* The files a launcher may be started from: the program, then a tail.
ExeContents == { << "code" >> \o tail : tail \in SeqsUpTo(Chunks, MaxChunks) }

\* OVERLAY_SEPARATOR in content (line 77)
HasSeparator(content) == \E i \in 1..Len(content) : content[i] = OVERLAY_SEPARATOR

\* content.split(OVERLAY_SEPARATOR)[-1] (lines 79-81): what follows the last
\* separator.
LastSegment(content) ==
    LET at == SetMax({ i \in 1..Len(content) : content[i] = OVERLAY_SEPARATOR })
    IN  SubSeq(content, at + 1, Len(content))

\* json_bytes.decode('utf-8') and json.loads succeed (line 83).
Decodes(segment) == Len(segment) = 1 /\ segment[1] \in JsonChunks

\* The last line of load_mode_from_overlay (line 92).
TeacherDefault == [mode |-> "teacher", limits |-> NoLimits]

\* load_mode_from_overlay (lines 65-92)
load_mode_from_overlay(f, content) ==
    IF f /\ HasSeparator(content) /\ Decodes(LastSegment(content))
    THEN json_loads(LastSegment(content)[1])
    ELSE TeacherDefault

\* The applications under APPS_DIR that are launched here.
Apps == {"plates", "trays"}

\* The most subprocesses followed.
MaxProcesses == 2

\* No launch_app call yet.
NoLaunch == [app |-> "", checked |-> FALSE, verdict |-> <<FALSE, "">>, started |-> FALSE]

\* What get_network_time may return to a call; which source answered makes
\* no difference to the caller.
NetworkTimes == {None} \cup { Time("Taobao", t) : t \in NowCases }

\* The name is_within_date_range of main.py (lines 28-31): the function of
\* features.date_range, or the stand-in defined when the import fails.
main_is_within_date_range(ok, current_time, s, e) ==
    IF ok THEN is_within_date_range(current_time, s, e)
    ELSE <<TRUE, "Module missing">>

\* limits = self.mode_data.get("limits", {}).get(app_name); if limits:
HasLimits(data, app) == app \in DOMAIN data.limits

\* A refusal that does not end the call.
RefusedNever(valid) == FALSE

\* if not valid: ... return (lines 354-363)
Refused(valid) == ~valid

LauncherInit ==
    /\ frozen = FALSE
    /\ exe_content = << "code" >>
    /\ launcher = "off"
    /\ mode_data = TeacherDefault
    /\ is_student = FALSE
    /\ imported = TRUE
    /\ running_processes = << >>
    /\ last_launch = NoLaunch

\* The program is put in place, as a script or packaged, with or without
\* the modules features.date_range needs.
Deploy ==
    /\ launcher = "off"
    /\ \E f \in BOOLEAN :
          /\ frozen' = f
          /\ exe_content' = << "code" >>
    /\ imported' \in BOOLEAN
    /\ UNCHANGED <<launcher, mode_data, is_student, running_processes, last_launch>>
    /\ UNCHANGED <<stage_vars, tray_vars, time_vars, params_vars, valve_vars>>

\* Bytes are added at the end of the file: by an export (lines 553-560),
\* or by whoever changes the copy.
Overlay ==
    /\ launcher = "off"
    /\ Len(exe_content) <= MaxChunks
    /\ \E c \in Chunks : exe_content' = Append(exe_content, c)
    /\ UNCHANGED <<frozen, imported, launcher, mode_data, is_student,
                   running_processes, last_launch>>
    /\ UNCHANGED <<stage_vars, tray_vars, time_vars, params_vars, valve_vars>>

\* LauncherApp.__init__ (lines 40-52)
LauncherStart ==
    /\ launcher = "off"
    /\ launcher' = "running"
    /\ mode_data' = load_mode_from_overlay(frozen, exe_content)
    /\ is_student' = (load_mode_from_overlay(frozen, exe_content).mode = "student")
    /\ running_processes' = << >>
    /\ last_launch' = NoLaunch
    /\ UNCHANGED <<frozen, exe_content, imported>>
    /\ UNCHANGED <<stage_vars, tray_vars, time_vars, params_vars, valve_vars>>

\* on_closing (lines 54-63)
LauncherClose ==
    /\ launcher = "running"
    /\ launcher' = "off"
    /\ mode_data' = TeacherDefault
    /\ is_student' = FALSE
    /\ running_processes' = << >>
    /\ last_launch' = NoLaunch
    /\ UNCHANGED <<frozen, exe_content, imported>>
    /\ UNCHANGED <<stage_vars, tray_vars, time_vars, params_vars, valve_vars>>

\* launch_app (lines 348-382): the limits are checked in student mode, then
\* the application is started, unless Popen raises (line 381).
LaunchApp ==
    /\ launcher = "running"
    /\ Len(running_processes) < MaxProcesses
    /\ \E app \in Apps, current_time \in NetworkTimes, popen_ok \in BOOLEAN :
          LET check == is_student /\ HasLimits(mode_data, app)
              verdict == IF check
                         THEN main_is_within_date_range(imported, current_time,
                                  mode_data.limits[app].start, mode_data.limits[app].end)
                         ELSE <<FALSE, "">>
              start == IF check /\ Refused(verdict[1]) THEN FALSE ELSE popen_ok
          IN  /\ running_processes' = IF start THEN Append(running_processes, app)
                                      ELSE running_processes
              /\ last_launch' = [app |-> app, checked |-> check,
                                 verdict |-> verdict, started |-> start]
    /\ UNCHANGED <<frozen, exe_content, launcher, mode_data, is_student, imported>>
    /\ UNCHANGED <<stage_vars, tray_vars, time_vars, params_vars, valve_vars>>

LauncherNext ==
    \/ Deploy
    \/ Overlay
    \/ LauncherStart
    \/ LauncherClose
    \/ LaunchApp

\* C18 as stated: whenever the running frozen executable contains the overlay
\* separator, load_mode_from_overlay yields student mode with the limits
\* that follow the separator; teacher mode results only when no overlay is
\* present.
C18_SeparatorMeansStudent ==
    launcher = "running" =>
        IF frozen /\ HasSeparator(exe_content)
        THEN /\ is_student
             /\ mode_data.mode = "student"
             /\ Decodes(LastSegment(exe_content))
                   => mode_data.limits = json_loads(LastSegment(exe_content)[1]).limits
        ELSE ~is_student /\ mode_data = TeacherDefault

\* A launch_app call just made.
Launched == launcher = "running" /\ last_launch' # last_launch /\ last_launch'.app # ""

\* C22: in student mode, for an application with limits, launch_app starts
\* a subprocess and adds it to running_processes only if
\* is_within_date_range returned valid for those limits in that call; a
\* refused launch (not started, expired, network error, bad format) leaves
\* running_processes unchanged.
C22_LaunchOnlyWhenValid ==
    [][LET grew == /\ launcher = "running"
                   /\ launcher' = "running"
                   /\ running_processes' # running_processes
           limited == is_student /\ HasLimits(mode_data, last_launch'.app)
           valid == last_launch'.checked /\ last_launch'.verdict[1]
           refused == last_launch'.checked /\ ~last_launch'.verdict[1]
       IN  /\ grew => running_processes' = Append(running_processes, last_launch'.app)
           /\ grew => last_launch'.started
           /\ (grew /\ limited) => valid
           /\ (Launched /\ refused) => running_processes' = running_processes
           /\ (Launched /\ limited) => last_launch'.checked
      ]_vars

\* A student launcher that started one application inside its limits and
\* then refused another as expired.
C22_Witness ==
    /\ is_student
    /\ running_processes = << "plates" >>
    /\ last_launch.app = "plates"
    /\ last_launch.checked
    /\ last_launch.verdict = <<FALSE, "EXPIRED">>
    /\ ~last_launch.started

-----------------------------------------------------------------------------
(* The tray-loading application: its parameter form, params.json and       *)
(* example.json.  One parameter of each plate type is followed.            *)

FL_KEYS == {"Vs_min_FL"}
SL_KEYS == {"Ls_max_SL"}
ALL_INPUT_KEYS == FL_KEYS \cup SL_KEYS

DEFAULT_PARAMS_FL == [k \in FL_KEYS |-> "1.06300244"]
DEFAULT_PARAMS_SL == [k \in SL_KEYS |-> "0.00567"]

PlateTypes == {"FL", "SL"}

\* DEFAULT_PARAMS (lines 61-64), flat.
DEFAULT_PARAMS ==
    [plate_type |-> "FL",
     vals |-> [k \in ALL_INPUT_KEYS |->
                  IF k \in FL_KEYS THEN DEFAULT_PARAMS_FL[k] ELSE DEFAULT_PARAMS_SL[k]]]

\* Texts a user types.
UserTexts == {"2.5", "abc"}

\* dict.update: d with the entries of u over it.
Update(d, u) ==
    [k \in DOMAIN d \cup DOMAIN u |-> IF k \in DOMAIN u THEN u[k] ELSE d[k]]

\* dict.get(key, default)
Get(d, k, default) == IF k \in DOMAIN d THEN d[k] ELSE default

\* The empty dictionary.
EmptyDict == [k \in {} |-> ""]

\* A file that is not there, and one that json.load refuses.
Missing == [state |-> "missing", plate_type |-> "FL", FL |-> EmptyDict, SL |-> EmptyDict]
Corrupt == [state |-> "corrupt", plate_type |-> "FL", FL |-> EmptyDict, SL |-> EmptyDict]
Structured(t, fl, sl) == [state |-> "json", plate_type |-> t, FL |-> fl, SL |-> sl]

\* The example files followed: none, a full one, one without the sieve
\* plate's parameters, an unreadable one.
ExampleFiles ==
    { Missing,
      Corrupt,
      Structured("SL", [k \in FL_KEYS |-> "1.2"], [k \in SL_KEYS |-> "1.2"]),
      Structured("FL", [k \in FL_KEYS |-> "1.2"], EmptyDict) }

\* load_params_from_file (lines 195-220)
load_params_from_file(file) ==
    IF file.state = "json"
    THEN [plate_type |-> file.plate_type,
          vals |-> [k \in ALL_INPUT_KEYS |->
                       IF k \in FL_KEYS THEN Get(file.FL, k, DEFAULT_PARAMS_FL[k])
                       ELSE Get(file.SL, k, DEFAULT_PARAMS_SL[k])]]
    ELSE DEFAULT_PARAMS

\* save_params (lines 225-259): what params.json holds afterwards.
save_params(params_to_save, current_type, existing) ==
    LET base_FL == IF existing.state = "json"
                   THEN Update(DEFAULT_PARAMS_FL, existing.FL) ELSE DEFAULT_PARAMS_FL
        base_SL == IF existing.state = "json"
                   THEN Update(DEFAULT_PARAMS_SL, existing.SL) ELSE DEFAULT_PARAMS_SL
        fl_data_new == [k \in FL_KEYS \cap DOMAIN params_to_save |-> params_to_save[k]]
        sl_data_new == [k \in SL_KEYS \cap DOMAIN params_to_save |-> params_to_save[k]]
    IN  Structured(current_type, Update(base_FL, fl_data_new), Update(base_SL, sl_data_new))

\* save_current_input_params (lines 288-294)
save_current_input_params(ins, current_type, existing) ==
    save_params(ins, current_type, existing)

\* What plot_diagram reads (lines 522-533).
Plotted(t, ins) == [plate_type |-> t, vals |-> ins]

ParamsInit ==
    /\ param_inputs = DEFAULT_PARAMS.vals
    /\ plate_type_var = "FL"
    /\ current_params = DEFAULT_PARAMS
    /\ params_json = Missing
    /\ example_json = Missing
    /\ plotted = Plotted("FL", DEFAULT_PARAMS.vals)
    /\ handler = "init"

\* The user types in an entry.
EditEntry ==
    /\ \E k \in ALL_INPUT_KEYS, text \in UserTexts :
          param_inputs' = [param_inputs EXCEPT ![k] = text]
    /\ handler' = "edit"
    /\ UNCHANGED <<plate_type_var, current_params, params_json, example_json, plotted>>
    /\ UNCHANGED <<stage_vars, tray_vars, launcher_vars, time_vars, valve_vars>>

\* example.json as shipped, or replaced.
ExampleInstalled ==
    /\ \E file \in ExampleFiles : example_json' = file
    /\ handler' = "install"
    /\ UNCHANGED <<param_inputs, plate_type_var, current_params, params_json, plotted>>
    /\ UNCHANGED <<stage_vars, tray_vars, launcher_vars, time_vars, valve_vars>>

\* plot_and_save_diagram (lines 518-520)
PlotAndSave ==
    /\ plotted' = Plotted(plate_type_var, param_inputs)
    /\ params_json' = save_current_input_params(param_inputs, plate_type_var, params_json)
    /\ handler' = "plot"
    /\ UNCHANGED <<param_inputs, plate_type_var, current_params, example_json>>
    /\ UNCHANGED <<stage_vars, tray_vars, launcher_vars, time_vars, valve_vars>>

\* on_plate_type_change (lines 296-310) with plate_type_var holding t: what
\* it leaves in params.json, current_params and the entries.
TraceSaved(t) == save_current_input_params(param_inputs, t, params_json)
TraceLoaded(t) == load_params_from_file(TraceSaved(t))

\* A radio button is chosen (lines 375-378): the variable is written, its
\* write trace (line 130) and the button's command both run
\* on_plate_type_change, the second time over what the first left.
PlateTypeChosen ==
    /\ \E t \in PlateTypes :
          LET once == TraceLoaded(t)
              saved == save_current_input_params(once.vals, t, TraceSaved(t))
              twice == load_params_from_file(saved)
          IN  /\ plate_type_var' = t
              /\ params_json' = saved
              /\ current_params' = twice
              /\ param_inputs' = twice.vals
              /\ plotted' = Plotted(t, twice.vals)
    /\ handler' = "type"
    /\ UNCHANGED example_json
    /\ UNCHANGED <<stage_vars, tray_vars, launcher_vars, time_vars, valve_vars>>

\* reset_params, confirmed (lines 174-192).  Line 178 loads the example;
\* line 184 writes plate_type_var, whose write trace runs
\* on_plate_type_change before line 186: the entries are saved and
\* current_params is loaded again from params.json; lines 186-189 then fill
\* the entries from current_params, and lines 191-192 save and plot.
ResetParams ==
    /\ LET example == load_params_from_file(example_json)
           t == example.plate_type
           after_trace == TraceLoaded(t)
       IN  /\ plate_type_var' = t
           /\ current_params' = after_trace
           /\ param_inputs' = after_trace.vals
           /\ params_json' = save_current_input_params(after_trace.vals, t, TraceSaved(t))
           /\ plotted' = Plotted(t, after_trace.vals)
    /\ handler' = "reset"
    /\ UNCHANGED example_json
    /\ UNCHANGED <<stage_vars, tray_vars, launcher_vars, time_vars, valve_vars>>

\* reset_params, declined at line 175.
ResetDeclined ==
    /\ handler' = "declined"
    /\ UNCHANGED <<param_inputs, plate_type_var, current_params, params_json,
                   example_json, plotted>>
    /\ UNCHANGED <<stage_vars, tray_vars, launcher_vars, time_vars, valve_vars>>

ParamsNext ==
    \/ EditEntry
    \/ ExampleInstalled
    \/ PlotAndSave
    \/ PlateTypeChosen
    \/ ResetParams
    \/ ResetDeclined

\* C23 as stated: after a confirmed reset_params every entry, of both plate
\* types, holds the value of example.json, or the built-in default where
\* the example lacks it, and params.json is saved with those values,
\* whatever the entries held before.
C23_ResetRestoresExample ==
    handler = "reset" =>
        LET example == load_params_from_file(example_json)
        IN  /\ \A k \in ALL_INPUT_KEYS : param_inputs[k] = example.vals[k]
            /\ params_json.state = "json"
            /\ \A k \in FL_KEYS : params_json.FL[k] = example.vals[k]
            /\ \A k \in SL_KEYS : params_json.SL[k] = example.vals[k]

-----------------------------------------------------------------------------
(* The valve/sieve counter: modes, entries, config.json, reset.  Of the    *)
(* entries, the hole pitch and the row pitch are followed.                 *)

Modes == {"valve", "sieve"}
OtherMode(m) == IF m = "valve" THEN "sieve" ELSE "valve"

\* HARDCODED_DEFAULTS as written (lines 28-55).
HARDCODED_DEFAULTS ==
    [current_mode |-> "valve",
     valve |-> [pitch_base |-> "75", pitch_prime |-> "65", layout_mode |-> "isosceles"],
     sieve |-> [pitch_base |-> "20", pitch_prime |-> "17.32", layout_mode |-> "equilateral"]]

\* The inner dictionaries of a configuration.
Inner(cfg) == [m \in Modes |-> cfg[m]]

\* The texts typed into the hole pitch entry.
UserPitches == {"30"}

\* float(text) succeeds, for the texts the hole pitch entry holds here.
IsFloat(text) == text \in {"75", "20", "30"}

\* f"{t_base * (np.sqrt(3) / 2.0):.2f}" (lines 297-300)
EquilateralPitch(text) ==
    CASE text = "75" -> "64.95"
      [] text = "20" -> "17.32"
      [] OTHER -> "25.98"

\* A configuration file: not there, or a JSON object; current_mode "" when
\* the object has no such key.
NoFile == [state |-> "missing", current_mode |-> "", valve |-> EmptyDict, sieve |-> EmptyDict]
ConfigFile(mode, inner) ==
    [state |-> "json", current_mode |-> mode, valve |-> inner["valve"], sieve |-> inner["sieve"]]

\* The default_config.json files followed.
DefaultConfigs ==
    { NoFile,
      [state |-> "json", current_mode |-> "sieve",
       valve |-> [pitch_prime |-> "50"], sieve |-> EmptyDict] }

\* The merge loops of load_config and reset_params (lines 712-716, 724-728,
\* 748-752): self.config[k].update(v) changes the dictionary in place.
Merged(inner, file) ==
    IF file.state = "json" THEN [m \in Modes |-> Update(inner[m], file[m])] ELSE inner
MergedMode(mode, file) ==
    IF file.state = "json" /\ file.current_mode # "" THEN file.current_mode ELSE mode

\* on_layout_mode_change (lines 289-305) on the entries ins, the pitch_prime
\* entry being in state st: a disabled entry ignores delete and insert.
on_layout_mode_change(layout, ins, st) ==
    IF layout = "equilateral"
    THEN IF IsFloat(ins["pitch_base"])
         THEN [inputs |-> IF st = "normal"
                          THEN [ins EXCEPT !["pitch_prime"] = EquilateralPitch(ins["pitch_base"])]
                          ELSE ins,
               state |-> "disabled"]
         ELSE [inputs |-> ins, state |-> st]
    ELSE [inputs |-> ins, state |-> "normal"]

\* refresh_dynamic_inputs (lines 210-255) for the parameters params: new
\* entries, the layout of the mode, then on_layout_mode_change.
refresh_dynamic_inputs(params) ==
    LET layout == Get(params, "layout_mode", "isosceles")
        fresh == [k \in {"pitch_base", "pitch_prime"} |-> Get(params, k, "")]
        after == on_layout_mode_change(layout, fresh, "normal")
    IN  [layout |-> layout, inputs |-> after.inputs, state |-> after.state]

\* save_current_params_to_memory (lines 307-318): the dictionary of mode
\* takes the entries and the layout.
save_current_params_to_memory(inner, mode, ins, layout) ==
    [inner EXCEPT ![mode] = Update(Update(inner[mode], ins), [layout_mode |-> layout])]

\* No visit to the other mode under way.
NoTrip == [phase |-> "none", other |-> EmptyDict]

ValveInit ==
    /\ shared = Inner(HARDCODED_DEFAULTS)
    /\ config_current_mode = "valve"
    /\ mode_var = "valve"
    /\ layout_mode_var = "isosceles"
    /\ valve_inputs = [pitch_base |-> "75", pitch_prime |-> "65"]
    /\ pitch_prime_state = "normal"
    /\ config_json = NoFile
    /\ default_config_json = NoFile
    /\ trip = NoTrip
    /\ valve_handler = "init"

\* The user types in an entry; a disabled entry takes no text.
ValveEdit ==
    /\ \/ \E text \in UserPitches :
             valve_inputs' = [valve_inputs EXCEPT !["pitch_base"] = text]
       \/ /\ pitch_prime_state = "normal"
          /\ valve_inputs' = [valve_inputs EXCEPT !["pitch_prime"] = "50"]
    /\ trip' = NoTrip
    /\ valve_handler' = "other"
    /\ UNCHANGED <<shared, config_current_mode, mode_var, layout_mode_var,
                   pitch_prime_state, config_json, default_config_json>>
    /\ UNCHANGED <<stage_vars, tray_vars, launcher_vars, time_vars, params_vars>>

\* A layout radio button is chosen (lines 232-238).
LayoutChosen ==
    /\ \E layout \in {"isosceles", "equilateral"} :
          LET after == on_layout_mode_change(layout, valve_inputs, pitch_prime_state)
          IN  /\ layout_mode_var' = layout
              /\ valve_inputs' = after.inputs
              /\ pitch_prime_state' = after.state
    /\ trip' = NoTrip
    /\ valve_handler' = "other"
    /\ UNCHANGED <<shared, config_current_mode, mode_var, config_json, default_config_json>>
    /\ UNCHANGED <<stage_vars, tray_vars, launcher_vars, time_vars, params_vars>>

\* The other mode's radio button is chosen: on_mode_change (lines 273-287).
ModeChosen ==
    /\ LET new_mode == OtherMode(mode_var)
           saved == save_current_params_to_memory(shared, mode_var, valve_inputs,
                                                  layout_mode_var)
           shown == refresh_dynamic_inputs(saved[new_mode])
       IN  /\ shared' = saved
           /\ config_current_mode' = new_mode
           /\ mode_var' = new_mode
           /\ layout_mode_var' = shown.layout
           /\ valve_inputs' = shown.inputs
           /\ pitch_prime_state' = shown.state
           /\ trip' = IF trip.phase = "away"
                      THEN [trip EXCEPT !.phase = "back"]
                      ELSE [phase |-> "away", other |-> shared[new_mode]]
    /\ valve_handler' = "mode"
    /\ UNCHANGED <<config_json, default_config_json>>
    /\ UNCHANGED <<stage_vars, tray_vars, launcher_vars, time_vars, params_vars>>

\* plot_graph (lines 352-355): the entries go to the configuration and the
\* configuration to config.json; the drawing changes nothing followed here.
ValvePlot ==
    /\ LET saved == save_current_params_to_memory(shared, mode_var, valve_inputs,
                                                  layout_mode_var)
       IN  /\ shared' = saved
           /\ config_json' = ConfigFile(config_current_mode, saved)
    /\ trip' = NoTrip
    /\ valve_handler' = "other"
    /\ UNCHANGED <<config_current_mode, mode_var, layout_mode_var, valve_inputs,
                   pitch_prime_state, default_config_json>>
    /\ UNCHANGED <<stage_vars, tray_vars, launcher_vars, time_vars, params_vars>>

\* reset_params, confirmed (lines 740-762).  HARDCODED_DEFAULTS.copy() at
\* line 743 copies the outer dictionary only: self.config[mode] is again
\* the inner dictionary that earlier saves wrote into.
ValveReset ==
    /\ LET merged == Merged(shared, default_config_json)
           current_mode == MergedMode(HARDCODED_DEFAULTS.current_mode, default_config_json)
           shown == refresh_dynamic_inputs(merged[current_mode])
           saved == save_current_params_to_memory(merged, current_mode, shown.inputs,
                                                  shown.layout)
       IN  /\ shared' = saved
           /\ config_current_mode' = current_mode
           /\ mode_var' = current_mode
           /\ layout_mode_var' = shown.layout
           /\ valve_inputs' = shown.inputs
           /\ pitch_prime_state' = shown.state
           /\ config_json' = ConfigFile(current_mode, saved)
    /\ trip' = NoTrip
    /\ valve_handler' = "reset"
    /\ UNCHANGED default_config_json
    /\ UNCHANGED <<stage_vars, tray_vars, launcher_vars, time_vars, params_vars>>

\* The window is closed (on_closing, lines 791-796) and the application is
\* started again (lines 74-94, load_config lines 704-730): a new process
\* has HARDCODED_DEFAULTS as written, and load_config merges both files
\* into its inner dictionaries.
ValveRestart ==
    /\ LET closing == ConfigFile(config_current_mode,
                           save_current_params_to_memory(shared, mode_var, valve_inputs,
                                                         layout_mode_var))
           loaded == Merged(Merged(Inner(HARDCODED_DEFAULTS), default_config_json), closing)
           current_mode == MergedMode(MergedMode(HARDCODED_DEFAULTS.current_mode,
                                                 default_config_json), closing)
           shown == refresh_dynamic_inputs(loaded[current_mode])
       IN  /\ config_json' = closing
           /\ shared' = loaded
           /\ config_current_mode' = current_mode
           /\ mode_var' = current_mode
           /\ layout_mode_var' = shown.layout
           /\ valve_inputs' = shown.inputs
           /\ pitch_prime_state' = shown.state
    /\ trip' = NoTrip
    /\ valve_handler' = "other"
    /\ UNCHANGED default_config_json
    /\ UNCHANGED <<stage_vars, tray_vars, launcher_vars, time_vars, params_vars>>

\* default_config.json is put beside the script, or taken away.
DefaultConfigInstalled ==
    /\ \E file \in DefaultConfigs : default_config_json' = file
    /\ trip' = NoTrip
    /\ valve_handler' = "other"
    /\ UNCHANGED <<shared, config_current_mode, mode_var, layout_mode_var,
                   valve_inputs, pitch_prime_state, config_json>>
    /\ UNCHANGED <<stage_vars, tray_vars, launcher_vars, time_vars, params_vars>>

ValveNext ==
    \/ ValveEdit
    \/ LayoutChosen
    \/ ModeChosen
    \/ ValvePlot
    \/ ValveReset
    \/ ValveRestart
    \/ DefaultConfigInstalled

\* C24 as stated: after a confirmed reset_params the parameters of each
\* mode in self.config are the hard-coded defaults as written in the
\* source, overlaid with default_config.json when that file exists,
\* whatever was edited, switched, plotted or loaded before.
C24_ResetGivesDefaults ==
    valve_handler = "reset" =>
        \A m \in Modes :
            shared[m] = Merged(Inner(HARDCODED_DEFAULTS), default_config_json)[m]

\* C25 as stated: after on_mode_change from mode A to mode B and back to A,
\* every entry of A shows what it held just before the first switch (which
\* is what the first switch saved for A, untouched since), and the stored
\* parameters of B are as they were before the visit.
C25_ModeRoundTrip ==
    trip.phase = "back" =>
        /\ \A k \in DOMAIN valve_inputs : valve_inputs[k] = shared[mode_var][k]
        /\ layout_mode_var = shared[mode_var]["layout_mode"]
        /\ shared[OtherMode(mode_var)] = trip.other

-----------------------------------------------------------------------------
(* The specifications.                                                     *)

\* All four programs as constructed.
Start ==
    /\ Init
    /\ TrayInit
    /\ LauncherInit
    /\ TimeInit
    /\ ParamsInit
    /\ ValveInit

Spec == Start /\ [][Next]_vars

FairSpec == Spec /\ WF_vars(Callback)

TraySpec == Start /\ [][TrayNext]_vars

LauncherSpec == Start /\ [][LauncherNext]_vars

TimeSpec == Start /\ [][TimeNext]_vars

ParamsSpec == Start /\ [][ParamsNext]_vars

ValveSpec == Start /\ [][ValveNext]_vars

=============================================================================
